---- MODULE Spec2Model ----
(***************************************************************************)
(* Model of the credential token cache of pyo3-object_store                *)
(* (src/pyo3-object_store/src/credentials.rs) and of the clone behaviour   *)
(* of the provider adapters that own one; and of the objects obstore       *)
(* (src/obstore/src) hands to Python: ListStream and BytesStream, the      *)
(* multipart upload of put, WritableFile and GetResult.                    *)
(*                                                                         *)
(* Time is counted in ticks of 50 milliseconds of the wall clock           *)
(* (Utc::now()), which is taken to be monotonic.  fetch_backoff (100 ms)   *)
(* is therefore 2 ticks and the default min_ttl (300 s) is 6000 ticks.     *)
(***************************************************************************)
EXTENDS Integers, Naturals, Sequences, FiniteSets, TLC

\* ---------------------------------------------------------------- bounds
MaxTime == 3            \* the clock runs from 0 to MaxTime
NCallers == 2           \* concurrent tasks calling get_or_insert_with
MaxItems == 3           \* elements the underlying stream of a ListStream
                        \* or BytesStream yields before it ends

\* ------------------------------------------------------ program constants
DefaultMinTtl == 6000   \* TimeDelta::seconds(300), in ticks of 50 ms
DefaultFetchBackoff == 2  \* TimeDelta::milliseconds(100), in ticks of 50 ms
DefaultGcpMinTtl == 4800  \* TimeDelta::minutes(4), in ticks of 50 ms
\* values of a user's refresh_threshold attribute (here 100 ms)
RefreshThresholds == {2}
\* the user's object has no refresh_threshold attribute
NoThreshold == -1
\* the three adapters
Providers == {"aws", "azure", "gcp"}

Callers == 1..NCallers
Caches == {1, 2}        \* 1: the adapter's cache, 2: the cache of its clone
Tokens == {"t1", "t2"}   \* credential payloads a refresh can return
Errs == {"e1", "e2"}     \* errors a refresh can fail with

\* Option<DateTime<Utc>>: None, or an instant
NoExpiry == -1
\* an instant with more than min_ttl of life left at every time of the model
FarExpiry == DefaultMinTtl + MaxTime + 1
Expiries == {NoExpiry, FarExpiry} \cup (1..(MaxTime + 1))

\* Option<(TemporaryToken<T>, DateTime<Utc>)>
NoSlot == [token |-> "", expiry |-> NoExpiry, fetched_at |-> -1]
Entry(tok, exp, at) == [token |-> tok, expiry |-> exp, fetched_at |-> at]

\* Result<T, E>
NoRet == [kind |-> "none", val |-> ""]
Ok(tok) == [kind |-> "ok", val |-> tok]
Err(e) == [kind |-> "err", val |-> e]

VARIABLES
    provider,       \* the adapter that owns the cache, and the attributes
                    \* of the user's object it was extracted from
    clock,          \* Utc::now()
    exists,         \* which caches have been constructed
    slot,           \* TokenCache.cache (the value behind the mutex)
    min_ttl,        \* TokenCache.min_ttl
    fetch_backoff,  \* TokenCache.fetch_backoff
    holder,         \* the caller that owns the MutexGuard, 0 when free
    waiters,        \* callers suspended in cache.lock().await, in order
    pc,             \* position of each caller in get_or_insert_with
    on,             \* the cache (self) of each caller's current call
    now,            \* the local `now` of each caller
    ret,            \* what each caller's last call returned
    calledF,        \* history: the caller's last call invoked f
    failedAt,       \* history: when the last refresh of a cache ended
                    \* without a token (error, or abandoned), -1 when
                    \* none did since the last one that succeeded
    stream,         \* PyListStream / PyBytesStream: which of the two, and
                    \* what the underlying stream has yet to yield
    chunk_size,     \* chunk_size of the list, min_chunk_size of the bytes
    ended,          \* Fuse: the underlying stream has returned None
    sholder,        \* the caller that owns the guard of the stream, or 0
    swaiters,       \* callers suspended in stream.lock().await, in order
    spc,            \* position of each caller in next_stream
    sync,           \* the `sync` argument of each caller's next_stream
    metas,          \* the local `metas` / `buffers` of each caller
    sret,           \* what each caller's last next-call returned
    delivered,      \* history: the batches returned, concatenated in the
                    \* order of the calls
    yielded,        \* history: the Ok items the underlying stream yielded
    input,          \* put_multipart_inner: the PutInput `reader`, its
                    \* variant and what it has yet to give
    upc,            \* position in put_multipart_inner / write_multipart
    cur,            \* the item of the reader that is being handled
    parts,          \* chunks handed to the WriteMultipart
    finishes,       \* history: calls of writer.finish()
    aborts,         \* history: calls of writer.abort()
    uerr,           \* the Err(err) of write_multipart
    uret,           \* what put_multipart_inner returned
    writer,         \* PyWritableFile.writer: the Option<BufWriter>
    wholder,        \* the caller that owns the guard of the writer, or 0
    wwaiters,       \* callers suspended in writer.lock().await, in order
    wpc,            \* position of each caller in its call on the file
    wfn,            \* the function each caller's call runs
    wret,           \* what each caller's last call on the file returned
    shutdowns,      \* history: calls of BufWriter::shutdown
    waborts,        \* history: calls of BufWriter::abort
    result,         \* PyGetResult: the Option<GetResult>
    rpc,            \* position of each caller in its call on the result
    rret,           \* what each caller's last call on the result returned
    consumed        \* history: the calls that took the GetResult

\* the variables of the token cache and of its adapter
cacheVars == <<provider, clock, exists, slot, min_ttl, fetch_backoff, holder,
               waiters, pc, on, now, ret, calledF, failedAt>>

\* the variables of a ListStream or BytesStream
streamVars == <<stream, chunk_size, ended, sholder, swaiters, spc, sync,
                metas, sret, delivered, yielded>>

\* the variables of put_multipart_inner
uploadVars == <<input, upc, cur, parts, finishes, aborts, uerr, uret>>

\* the variables of a WritableFile
writerVars == <<writer, wholder, wwaiters, wpc, wfn, wret, shutdowns,
                waborts>>

\* the variables of a GetResult
resultVars == <<result, rpc, rret, consumed>>

\* the variables of the objects of obstore
ioVars == <<streamVars, uploadVars, writerVars, resultVars>>

vars == <<cacheVars, ioVars>>

\* -------------------------------------------- ListStream and BytesStream
\* what the underlying stream yields: Ok(item), or Err
Items == {"a", "b", "c"}
Failure == "x"
Elements == Items \cup {Failure}
Sources == UNION {[1..n -> Elements] : n \in 0..MaxItems}
ChunkSizes == {1, 2}

\* buf.len() of the Bytes items
ByteLen(x) == IF x = "a" THEN 1 ELSE IF x = "b" THEN 2 ELSE 0

\* PyResult<PyListIterResult>, PyResult<PyBytesWrapper>
NoBatch == [kind |-> "none", items |-> <<>>]
Batch(m) == [kind |-> "batch", items |-> m]
StreamError == [kind |-> "error", items |-> <<>>]
Stop(s) ==
    [kind |-> IF s THEN "StopIteration" ELSE "StopAsyncIteration",
     items |-> <<>>]

\* no ListStream or BytesStream is in use
StreamIdle ==
    /\ stream = [kind |-> "list", rest |-> <<>>]
    /\ chunk_size = 1
    /\ ended = FALSE
    /\ sholder = 0
    /\ swaiters = <<>>
    /\ spc = [k \in Callers |-> "idle"]
    /\ sync = [k \in Callers |-> FALSE]
    /\ metas = [k \in Callers |-> <<>>]
    /\ sret = [k \in Callers |-> NoBatch]
    /\ delivered = <<>>
    /\ yielded = <<>>

\* --------------------------------------------------- multipart upload
\* PyObjectStoreResult<PyPutResult>: nothing yet, the PutResult, or the
\* error of the step that failed
NoPut == "none"
PutOk == "PutResult"
PutErrs == {"create", "read", "capacity", "finish", "abort"}

\* what the reader gives at each turn: a chunk of bytes, or an error
Reads == {"chunk", "fault"}
Inputs == [kind : {"Pull", "SyncPush", "AsyncPush"},
           rest : UNION {[1..n -> Reads] : n \in 0..MaxItems}]

\* no put is in progress
UploadIdle ==
    /\ input = [kind |-> "Pull", rest |-> <<>>]
    /\ upc = "idle"
    /\ cur = ""
    /\ parts = 0
    /\ finishes = 0
    /\ aborts = 0
    /\ uerr = ""
    /\ uret = NoPut

\* -------------------------------------------------------- WritableFile
\* PyResult of the calls on the file
NoOut == "none"
Done == "ok"
AlreadyClosed == "Writer already closed."
WriterFailed == "object store error"
WriterFns == {"is_closed", "abort_writer", "close_writer", "flush", "write"}

\* no WritableFile is in use
WriterIdle ==
    /\ writer = "Some"
    /\ wholder = 0
    /\ wwaiters = <<>>
    /\ wpc = [k \in Callers |-> "idle"]
    /\ wfn = [k \in Callers |-> "is_closed"]
    /\ wret = [k \in Callers |-> NoOut]
    /\ shutdowns = 0
    /\ waborts = 0

\* ------------------------------------------------------------ GetResult
Disposed == "Result has already been disposed."
Takers == {"bytes", "bytes_async", "stream", "__iter__", "__aiter__"}
Getters == {"attributes", "meta", "range"}
NoCall == [op |-> "", out |-> "none"]

\* no GetResult is in use
ResultIdle ==
    /\ result = "Some"
    /\ rpc = [k \in Callers |-> "idle"]
    /\ rret = [k \in Callers |-> NoCall]
    /\ consumed = <<>>

\* the objects of obstore are not in use
IoInit == StreamIdle /\ UploadIdle /\ WriterIdle /\ ResultIdle

\* impl Default for TokenCache
Default == [min_ttl |-> DefaultMinTtl, fetch_backoff |-> DefaultFetchBackoff]

\* (mutant) with_min_ttl leaves the cache as it is
with_min_ttl_ignored(self, ttl) == self

\* lines 54-56: the cache with another min_ttl
with_min_ttl(self, ttl) == [self EXCEPT !.min_ttl = ttl]

\* impl FromPyObject for PyAWSCredentialProvider, PyAzureCredentialProvider
\* and PyGcpCredentialProvider: the cache built for the user's object ob
extract_bound(ob) ==
    IF ob.kind = "gcp"
      THEN with_min_ttl(Default,
                        IF ob.refresh_threshold = NoThreshold
                          THEN DefaultGcpMinTtl
                          ELSE ob.refresh_threshold)
      ELSE IF ob.refresh_threshold = NoThreshold
             THEN Default
             ELSE with_min_ttl(Default, ob.refresh_threshold)

\* an adapter of one of the given kinds is extracted from a user's object
Construct(kinds) ==
    /\ provider \in [kind : kinds,
                     refresh_threshold : {NoThreshold} \cup RefreshThresholds]
    /\ exists = [c \in Caches |-> c = 1]
    /\ min_ttl = [c \in Caches |->
                    IF c = 1 THEN extract_bound(provider).min_ttl ELSE 0]
    /\ fetch_backoff = [c \in Caches |->
                    IF c = 1 THEN extract_bound(provider).fetch_backoff ELSE 0]

CacheInit ==
    /\ clock = 0
    /\ Construct({"aws"})
    /\ slot = [c \in Caches |-> NoSlot]
    /\ holder = [c \in Caches |-> 0]
    /\ waiters = [c \in Caches |-> <<>>]
    /\ pc = [k \in Callers |-> "idle"]
    /\ on = [k \in Callers |-> 1]
    /\ now = [k \in Callers |-> 0]
    /\ ret = [k \in Callers |-> NoRet]
    /\ calledF = [k \in Callers |-> FALSE]
    /\ failedAt = [c \in Caches |-> -1]

\* the adapter with its cache; the objects of obstore are not in use
Init == CacheInit /\ IoInit

\* the wall clock advances
Tick ==
    /\ clock < MaxTime
    /\ clock' = clock + 1
    /\ UNCHANGED ioVars
    /\ UNCHANGED <<provider, exists, slot, min_ttl, fetch_backoff, holder,
                   waiters, pc, on, now, ret, calledF, failedAt>>

\* (mutant) the clone copies the cached token
CloneSlotCopies(s) == s

\* impl Clone for TokenCache: the clone's slot is Default (empty), whatever
\* the slot s of the original holds
CloneSlot(s) == NoSlot

\* impl Clone for PyAWSCredentialProvider: self.cache.clone() with the two
\* durations copied
Clone ==
    /\ exists[1] /\ ~exists[2]
    /\ exists' = [exists EXCEPT ![2] = TRUE]
    /\ slot' = [slot EXCEPT ![2] = CloneSlot(slot[1])]
    /\ min_ttl' = [min_ttl EXCEPT ![2] = min_ttl[1]]
    /\ fetch_backoff' = [fetch_backoff EXCEPT ![2] = fetch_backoff[1]]
    /\ UNCHANGED ioVars
    /\ UNCHANGED <<provider, clock, holder, waiters, pc, on, now, ret, calledF,
                   failedAt>>

\* (mutant) a clone shares the mutex of its original
CanAcquireShared(c) ==
    \A d \in Caches : holder[d] = 0 /\ waiters[d] = <<>>

\* (mutant) the mutex is taken without looking at its owner
CanAcquireAlways(c) == TRUE

\* the mutex of cache c is free for a caller who arrives now
CanAcquire(c) == holder[c] = 0 /\ waiters[c] = <<>>

\* lines 64-66: let now = Utc::now(); then the first poll of
\* self.cache.lock().await: take the free mutex, or queue behind the callers
\* already waiting
Start(k, c) ==
    /\ pc[k] = "idle"
    /\ exists[c]
    /\ on' = [on EXCEPT ![k] = c]
    /\ now' = [now EXCEPT ![k] = clock]
    /\ ret' = [ret EXCEPT ![k] = NoRet]
    /\ calledF' = [calledF EXCEPT ![k] = FALSE]
    /\ IF CanAcquire(c)
         THEN /\ holder' = [holder EXCEPT ![c] = k]
              /\ pc' = [pc EXCEPT ![k] = "locked"]
              /\ UNCHANGED waiters
         ELSE /\ waiters' = [waiters EXCEPT ![c] = Append(@, k)]
              /\ pc' = [pc EXCEPT ![k] = "waiting"]
              /\ UNCHANGED holder
    /\ UNCHANGED ioVars
    /\ UNCHANGED <<provider, clock, exists, slot, min_ttl, fetch_backoff,
                   failedAt>>

\* (mutant) the guard is never released
HolderKept(c) == holder[c]

\* the MutexGuard is dropped: the mutex passes to the first waiter, if any
HolderAfter(c) == IF waiters[c] = <<>> THEN 0 ELSE Head(waiters[c])
WaitersAfter(c) == IF waiters[c] = <<>> THEN <<>> ELSE Tail(waiters[c])

\* (mutant) the first waiter is not woken when the mutex passes to it
PcAfterNoWake(k, c) == [pc EXCEPT ![k] = "idle"]

\* the call of caller k on cache c is over (its locals are gone) and the
\* caller it passed the mutex to owns the guard
PcAfter(k, c) ==
    [j \in Callers |-> IF j = k THEN "idle"
                       ELSE IF j = HolderAfter(c) THEN "locked"
                       ELSE pc[j]]

\* (mutant) after an error the call goes round again instead of returning
ReturnRetries(k, c, r) ==
    IF r.kind = "err"
      THEN /\ pc' = [pc EXCEPT ![k] = "locked"]
           /\ UNCHANGED <<ret, holder, waiters, on, now>>
      ELSE /\ ret' = [ret EXCEPT ![k] = r]
           /\ holder' = [holder EXCEPT ![c] =
                            IF waiters[c] = <<>> THEN 0 ELSE Head(waiters[c])]
           /\ waiters' = [waiters EXCEPT ![c] =
                            IF @ = <<>> THEN <<>> ELSE Tail(@)]
           /\ pc' = [j \in Callers |->
                       IF j = k THEN "idle"
                       ELSE IF waiters[c] # <<>> /\ j = Head(waiters[c])
                              THEN "locked" ELSE pc[j]]
           /\ on' = [on EXCEPT ![k] = 1]
           /\ now' = [now EXCEPT ![k] = 0]

\* caller k leaves get_or_insert_with on cache c with result r
Return(k, c, r) ==
    /\ ret' = [ret EXCEPT ![k] = r]
    /\ holder' = [holder EXCEPT ![c] = HolderAfter(c)]
    /\ waiters' = [waiters EXCEPT ![c] = WaitersAfter(c)]
    /\ pc' = PcAfter(k, c)
    /\ on' = [on EXCEPT ![k] = 1]
    /\ now' = [now EXCEPT ![k] = 0]

\* (mutant) the min_ttl comparison is turned around
FreshFlipped(expiry_time, fetched_at, n, t, ttl, backoff) ==
    \/ expiry_time - n < ttl
    \/ (t - fetched_at < backoff /\ expiry_time - n > 0)

\* (mutant) the backoff window includes its end
FreshInclusive(expiry_time, fetched_at, n, t, ttl, backoff) ==
    \/ expiry_time - n > ttl
    \/ (t - fetched_at <= backoff /\ expiry_time - n > 0)

\* (mutant) no backoff: only a token with ample life is reused
FreshNoBackoff(expiry_time, fetched_at, n, t, ttl, backoff) ==
    expiry_time - n > ttl

\* (mutant) the remaining life is measured from the time sampled under the
\* lock
FreshSampled(expiry_time, fetched_at, n, t, ttl, backoff) ==
    \/ expiry_time - t > ttl
    \/ (t - fetched_at < backoff /\ expiry_time - n > 0)

\* (mutant) exactly min_ttl of remaining life counts as ample
FreshAmpleInclusive(expiry_time, fetched_at, n, t, ttl, backoff) ==
    \/ expiry_time - n >= ttl
    \/ (t - fetched_at < backoff /\ expiry_time - n > 0)

\* (mutant) the backoff is measured from the time captured at call start
FreshFromStart(expiry_time, fetched_at, n, t, ttl, backoff) ==
    \/ expiry_time - n > ttl
    \/ (n - fetched_at < backoff /\ expiry_time - n > 0)

\* lines 74-77: the stored token has more than min_ttl of life left, or it
\* was fetched less than fetch_backoff ago and has not expired.  n is the
\* `now` of line 64, t the Utc::now() of line 77
Fresh(expiry_time, fetched_at, n, t, ttl, backoff) ==
    \/ expiry_time - n > ttl
    \/ (t - fetched_at < backoff /\ expiry_time - n > 0)

\* (mutant) a token without expiry is treated as expired
HitExpiringOnly(c, n, t) ==
    /\ slot[c] # NoSlot
    /\ slot[c].expiry # NoExpiry
    /\ Fresh(slot[c].expiry, slot[c].fetched_at, n, t,
             min_ttl[c], fetch_backoff[c])

\* lines 68-84: the call returns the cached token
Hit(c, n, t) ==
    /\ slot[c] # NoSlot
    /\ \/ slot[c].expiry = NoExpiry
       \/ /\ slot[c].expiry # NoExpiry
          /\ Fresh(slot[c].expiry, slot[c].fetched_at, n, t,
                   min_ttl[c], fetch_backoff[c])

\* (mutant) returning the cached token restarts the backoff window
AfterHitTouches(old, at) == [old EXCEPT !.fetched_at = at]

\* lines 79 and 82: the hit path reads the slot through as_ref() and
\* returns; the slot stays as it is
AfterHit(old, at) == old

\* lines 68-86: with the mutex held, return the cached token or call f()
Inspect(k) ==
    /\ pc[k] = "locked"
    /\ LET c == on[k] IN
         IF Hit(c, now[k], clock)
           THEN /\ slot' = [slot EXCEPT ![c] = AfterHit(@, clock)]
                /\ Return(k, c, Ok(slot[c].token))
                /\ UNCHANGED calledF
           ELSE /\ pc' = [pc EXCEPT ![k] = "refreshing"]
                /\ calledF' = [calledF EXCEPT ![k] = TRUE]
                /\ UNCHANGED <<slot, ret, holder, waiters, on, now>>
    /\ UNCHANGED ioVars
    /\ UNCHANGED <<provider, clock, exists, min_ttl, fetch_backoff, failedAt>>

\* (mutant) the token is replaced, the time of the first fetch is kept
InstalledKeepsTime(old, tok, exp, at) ==
    Entry(tok, exp, IF old = NoSlot THEN at ELSE old.fetched_at)

\* (mutant) a slot that holds a token is not overwritten
InstalledOnce(old, tok, exp, at) ==
    IF old = NoSlot THEN Entry(tok, exp, at) ELSE old

\* line 88: *locked = Some((cached, Utc::now()))
Installed(old, tok, exp, at) == Entry(tok, exp, at)

\* lines 86-90: f().await succeeded with TemporaryToken {tok, exp}
RefreshOk(k, tok, exp) ==
    /\ pc[k] = "refreshing"
    /\ LET c == on[k] IN
         /\ slot' = [slot EXCEPT ![c] = Installed(@, tok, exp, clock)]
         /\ Return(k, c, Ok(tok))
         /\ failedAt' = [failedAt EXCEPT ![c] = -1]
    /\ UNCHANGED ioVars
    /\ UNCHANGED <<provider, clock, exists, min_ttl, fetch_backoff,
                   calledF>>

\* (mutant) a failed refresh evicts a token that has expired
AfterErrorEvictsExpired(old, at) ==
    IF old # NoSlot /\ old.expiry # NoExpiry /\ old.expiry <= at
      THEN NoSlot
      ELSE old

\* (mutant) a failed refresh evicts the stored token
AfterErrorEvicts(old, at) == NoSlot

\* (mutant) a failed refresh restarts the backoff window
AfterErrorTouches(old, at) ==
    IF old = NoSlot THEN old ELSE [old EXCEPT !.fetched_at = at]

\* line 86: the `?` on an Err(e) of f().await leaves the slot as it is and
\* returns Err(e)
AfterError(old, at) == old
Propagated(e) == Err(e)

RefreshErr(k, e) ==
    /\ pc[k] = "refreshing"
    /\ LET c == on[k] IN
         /\ slot' = [slot EXCEPT ![c] = AfterError(@, clock)]
         /\ Return(k, c, Propagated(e))
         /\ failedAt' = [failedAt EXCEPT ![c] = clock]
    /\ UNCHANGED ioVars
    /\ UNCHANGED <<provider, clock, exists, min_ttl, fetch_backoff,
                   calledF>>

\* (mutant) a cancelled waiter stays in the queue of the mutex
UnqueuedStays(q, k) == q

\* the future of lock() is dropped while it waits: it leaves the queue q
Unqueued(q, k) == SelectSeq(q, LAMBDA j : j # k)

\* the future of get_or_insert_with is dropped before it completes (its task
\* is cancelled, or f panics): a waiter leaves the queue, an owner's
\* MutexGuard is dropped; nothing is returned
Abandon(k) ==
    /\ pc[k] \in {"waiting", "locked", "refreshing"}
    /\ LET c == on[k] IN
         IF pc[k] = "waiting"
           THEN /\ waiters' = [waiters EXCEPT ![c] = Unqueued(@, k)]
                /\ pc' = [pc EXCEPT ![k] = "idle"]
                /\ on' = [on EXCEPT ![k] = 1]
                /\ now' = [now EXCEPT ![k] = 0]
                /\ UNCHANGED <<holder, ret, failedAt>>
           ELSE /\ Return(k, c, NoRet)
                /\ failedAt' = [failedAt EXCEPT ![c] =
                                  IF pc[k] = "refreshing" THEN clock ELSE @]
    /\ UNCHANGED ioVars
    /\ UNCHANGED <<provider, clock, exists, slot, min_ttl, fetch_backoff,
                   calledF>>

Next ==
    \/ Tick
    \/ \E k \in Callers, c \in Caches : Start(k, c)
    \/ \E k \in Callers : Inspect(k)
    \/ \E k \in Callers, tok \in Tokens, exp \in Expiries : RefreshOk(k, tok, exp)
    \/ \E k \in Callers, e \in Errs : RefreshErr(k, e)
    \/ \E k \in Callers : Abandon(k)

\* one cache and its callers
Spec == Init /\ [][Next]_vars

\* The adapter is cloned at some point (the clock is followed up to then):
\* caller 1 keeps the original, the other callers use the clone.  A refresh
\* returns a never-expiring, a soon-expiring or a long-lived token, or fails
CloneExpiries == {NoExpiry, FarExpiry, 1}
CacheOf(k) == IF k = 1 THEN 1 ELSE 2

NextClone ==
    \/ (~exists[2] /\ Tick)
    \/ Clone
    \/ \E k \in Callers : Start(k, CacheOf(k))
    \/ \E k \in Callers : Inspect(k)
    \/ \E k \in Callers, tok \in Tokens, exp \in CloneExpiries :
          RefreshOk(k, tok, exp)
    \/ \E k \in Callers : RefreshErr(k, "e1")

SpecClone == Init /\ [][NextClone]_vars

\* N callers race for a refresh: the slot starts with a token ("t1") that a
\* call made now would not reuse, each caller calls once, and every refresh
\* succeeds with the same long-lived token ("t2")
HerdInit ==
    /\ Construct({"aws"})
    /\ clock \in 0..MaxTime
    /\ \E exp \in 1..(MaxTime + 1), at \in 0..clock :
          /\ ~Fresh(exp, at, clock, clock, min_ttl[1], fetch_backoff[1])
          /\ slot = [c \in Caches |-> IF c = 1 THEN Entry("t1", exp, at)
                                      ELSE NoSlot]
    /\ holder = [c \in Caches |-> 0]
    /\ waiters = [c \in Caches |-> <<>>]
    /\ pc = [k \in Callers |-> "idle"]
    /\ on = [k \in Callers |-> 1]
    /\ now = [k \in Callers |-> 0]
    /\ ret = [k \in Callers |-> NoRet]
    /\ calledF = [k \in Callers |-> FALSE]
    /\ failedAt = [c \in Caches |-> -1]
    /\ IoInit

HerdStart(k) == ret[k] = NoRet /\ Start(k, 1)
HerdRefresh(k) == RefreshOk(k, "t2", FarExpiry)

NextHerd ==
    \/ Tick
    \/ \E k \in Callers : HerdStart(k)
    \/ \E k \in Callers : Inspect(k)
    \/ \E k \in Callers : HerdRefresh(k)

SpecHerd == HerdInit /\ [][NextHerd]_vars

\* ------------------------------------------------------- fair runs
\* expiries the refreshes of the fair runs return
LiveExpiries == {1, FarExpiry}

\* the refresh of caller k completes, with a token or with an error
Completes(k) ==
    \/ \E exp \in LiveExpiries : RefreshOk(k, "t1", exp)
    \/ RefreshErr(k, "e1")

NextLive ==
    \/ Tick
    \/ \E k \in Callers : Start(k, 1)
    \/ \E k \in Callers : Inspect(k)
    \/ \E k \in Callers : Completes(k)

\* the runtime polls every task that can run (the owner of the mutex
\* inspects the slot) and every refresh completes; no call is abandoned
SpecLive ==
    /\ Init
    /\ [][NextLive]_vars
    /\ \A k \in Callers : WF_vars(Inspect(k)) /\ WF_vars(Completes(k))

\* ------------------------------------------------ the provider adapters
\* fields of a Python result that do not apply
NoToken == "none"
NoErr == ""

\* expiries the callbacks return
CallbackExpiries == {NoExpiry, FarExpiry, 1}

\* what the user's callback does when it is called: it raises (fails =
\* "call"); it returns an object, awaitable (how = "async") or not, that
\* is not a credential (fails = "extract"); its awaitable raises (fails =
\* "await"); or it yields a credential
Callbacks ==
    {cb \in [how : {"sync", "async"},
             fails : {"no", "call", "await", "extract"},
             token : Tokens, expiry : CallbackExpiries,
             err : Errs] :
        /\ cb.fails = "await" => cb.how = "async"
        /\ cb.fails = "no" => cb.err = "e1"
        /\ cb.fails # "no" => (cb.token = "t1" /\ cb.expiry = NoExpiry)}

\* PyResult<PyAwsCredential>: a Python exception, or the credential
PyErr(e) ==
    [kind |-> "err", token |-> NoToken, expiry |-> NoExpiry, err |-> e]
PyCredential(tok, exp) ==
    [kind |-> "ok", token |-> tok, expiry |-> exp, err |-> NoErr]

\* inspect.isawaitable(ob)
is_awaitable(ob) == ob.how = "async"

\* extract_bound of the credential: the object has its fields or not
extract(ob) ==
    IF ob.fails = "extract"
      THEN PyErr(ob.err)
      ELSE PyCredential(ob.token, ob.expiry)

\* extract_bound of PyCredentialProviderResult
extract_result(ob) ==
    IF is_awaitable(ob)
      THEN [variant |-> "Async", coroutine |-> ob]
      ELSE [variant |-> "Sync", credentials |-> extract(ob)]

\* (mutant) the awaitable is not awaited: it is no credential
resolve_unawaited(self) ==
    IF self.variant = "Sync"
      THEN self.credentials
      ELSE PyErr("e1")

\* PyCredentialProviderResult::resolve
resolve(self) ==
    IF self.variant = "Sync"
      THEN self.credentials
      ELSE IF self.coroutine.fails = "await"
             THEN PyErr(self.coroutine.err)
             ELSE extract(self.coroutine)

\* call: user_callback.call0(py)?.extract(py)?, then resolve().await
call(cb) ==
    IF cb.fails = "call"
      THEN PyErr(cb.err)
      ELSE resolve(extract_result(cb))

\* the path of the Unauthenticated error of each adapter
ProviderPath(kind) ==
    IF kind = "aws" THEN "External AWS credential provider"
    ELSE IF kind = "azure" THEN "External Azure credential provider"
    ELSE "External GCP credential provider"

\* object_store::Error::Unauthenticated { path, source }
Unauthenticated(path, source) == path \o " <- " \o source

\* (mutant) the error of the callback is returned as it is
fetch_token_unmapped(kind, cb) == call(cb)

\* fetch_token: the callback's error becomes Unauthenticated, its credential
\* a TemporaryToken
fetch_token(kind, cb) ==
    LET credential == call(cb) IN
    IF credential.kind = "err"
      THEN PyErr(Unauthenticated(ProviderPath(kind), credential.err))
      ELSE PyCredential(credential.token, credential.expiry)

\* get_credential: the refresh of get_or_insert_with is fetch_token
FetchToken(k, cb) ==
    LET r == fetch_token(provider.kind, cb) IN
    IF r.kind = "ok"
      THEN RefreshOk(k, r.token, r.expiry)
      ELSE RefreshErr(k, r.err)

AdapterInit ==
    /\ clock = 0
    /\ Construct(Providers)
    /\ slot = [c \in Caches |-> NoSlot]
    /\ holder = [c \in Caches |-> 0]
    /\ waiters = [c \in Caches |-> <<>>]
    /\ pc = [k \in Callers |-> "idle"]
    /\ on = [k \in Callers |-> 1]
    /\ now = [k \in Callers |-> 0]
    /\ ret = [k \in Callers |-> NoRet]
    /\ calledF = [k \in Callers |-> FALSE]
    /\ failedAt = [c \in Caches |-> -1]
    /\ IoInit

\* the callers of the adapter
AdapterCallers == {1, 2}

NextAdapter ==
    \/ Tick
    \/ \E k \in AdapterCallers : Start(k, 1)
    \/ \E k \in AdapterCallers : Inspect(k)
    \/ \E k \in AdapterCallers, cb \in Callbacks : FetchToken(k, cb)

\* the three adapters, each with its cache and its callers
SpecAdapter == AdapterInit /\ [][NextAdapter]_vars

\* ------------------------------------- next-calls of a stream (list.rs,
\* get.rs)
\* (mutant) at the end of the stream the batch is returned as it is
AtEndFlushes(m, s) == Batch(m)

\* list.rs 168-189, get.rs 253-266: the stream returned None: the batch, or
\* when there is none StopIteration / StopAsyncIteration
AtEnd(m, s) == IF m = <<>> THEN Stop(s) ELSE Batch(m)

\* buffers.iter().fold(0, |acc, buf| acc + buf.len())
RECURSIVE TotalLen(_)
TotalLen(m) == IF m = <<>> THEN 0 ELSE ByteLen(Head(m)) + TotalLen(Tail(m))

\* list.rs 157, get.rs 250: the batch m has reached the chunk size
Full(kind, m, size) ==
    IF kind = "list" THEN Len(m) >= size ELSE TotalLen(m) >= size

\* a ListStream or a BytesStream over an underlying stream, not yet polled
StreamInit ==
    /\ CacheInit
    /\ stream \in [kind : {"list", "bytes"}, rest : Sources]
    /\ chunk_size \in ChunkSizes
    /\ ended = FALSE
    /\ sholder = 0
    /\ swaiters = <<>>
    /\ spc = [k \in Callers |-> "idle"]
    /\ sync = [k \in Callers |-> FALSE]
    /\ metas = [k \in Callers |-> <<>>]
    /\ sret = [k \in Callers |-> NoBatch]
    /\ delivered = <<>>
    /\ yielded = <<>>
    /\ UploadIdle /\ WriterIdle /\ ResultIdle

\* __next__ (s = TRUE) or __anext__ (s = FALSE): next_stream begins with
\* stream.lock().await and an empty batch
NextStart(k, s) ==
    /\ spc[k] = "idle"
    /\ sync' = [sync EXCEPT ![k] = s]
    /\ sret' = [sret EXCEPT ![k] = NoBatch]
    /\ IF sholder = 0 /\ swaiters = <<>>
         THEN /\ sholder' = k
              /\ spc' = [spc EXCEPT ![k] = "polling"]
              /\ UNCHANGED swaiters
         ELSE /\ swaiters' = Append(swaiters, k)
              /\ spc' = [spc EXCEPT ![k] = "waiting"]
              /\ UNCHANGED sholder
    /\ UNCHANGED <<cacheVars, uploadVars, writerVars, resultVars>>
    /\ UNCHANGED <<stream, chunk_size, ended, metas, delivered, yielded>>

\* next_stream of caller k returns r: the guard is dropped and the mutex
\* passes to the first waiter
StreamReturn(k, r) ==
    /\ sret' = [sret EXCEPT ![k] = r]
    /\ metas' = [metas EXCEPT ![k] = <<>>]
    /\ delivered' = delivered \o r.items
    /\ sholder' = IF swaiters = <<>> THEN 0 ELSE Head(swaiters)
    /\ swaiters' = IF swaiters = <<>> THEN <<>> ELSE Tail(swaiters)
    /\ spc' = [j \in Callers |->
                IF j = k THEN "idle"
                ELSE IF swaiters # <<>> /\ j = Head(swaiters) THEN "polling"
                ELSE spc[j]]

\* one turn of the loop of next_stream: stream.next().await and its match
Poll(k) ==
    /\ spc[k] = "polling"
    /\ IF ended \/ stream.rest = <<>>
         THEN /\ ended' = TRUE
              /\ StreamReturn(k, AtEnd(metas[k], sync[k]))
              /\ UNCHANGED <<stream, yielded>>
         ELSE LET e == Head(stream.rest) IN
              /\ stream' = [stream EXCEPT !.rest = Tail(@)]
              /\ UNCHANGED ended
              /\ IF e = Failure
                   THEN /\ StreamReturn(k, StreamError)
                        /\ UNCHANGED yielded
                   ELSE /\ yielded' = Append(yielded, e)
                        /\ IF Full(stream.kind, Append(metas[k], e),
                                   chunk_size)
                             THEN StreamReturn(k, Batch(Append(metas[k], e)))
                             ELSE /\ metas' = [metas EXCEPT ![k] =
                                                 Append(@, e)]
                                  /\ UNCHANGED <<sret, delivered, sholder,
                                                 swaiters, spc>>
    /\ UNCHANGED <<cacheVars, uploadVars, writerVars, resultVars>>
    /\ UNCHANGED <<chunk_size, sync>>

NextStream ==
    \/ \E k \in Callers, s \in BOOLEAN : NextStart(k, s)
    \/ \E k \in Callers : Poll(k)

\* a stream and the callers of its __next__ and __anext__
SpecStream == StreamInit /\ [][NextStream]_vars

\* ------------------------------- put_multipart_inner (put.rs 429-494)
\* a put of a reader of each variant, before store.put_multipart_opts
UploadInit ==
    /\ CacheInit /\ StreamIdle /\ WriterIdle /\ ResultIdle
    /\ input \in Inputs
    /\ upc = "idle"
    /\ cur = ""
    /\ parts = 0
    /\ finishes = 0
    /\ aborts = 0
    /\ uerr = ""
    /\ uret = NoPut

\* line 446: store.put_multipart_opts(path, opts).await?
CreateUpload(ok) ==
    /\ upc = "idle"
    /\ IF ok
         THEN upc' = "reading" /\ UNCHANGED uret
         ELSE upc' = "done" /\ uret' = "create"
    /\ UNCHANGED <<cacheVars, streamVars, writerVars, resultVars>>
    /\ UNCHANGED <<input, cur, parts, finishes, aborts, uerr>>

\* write_multipart returns Err(err): line 452
Failed(err) == upc' = "aborting" /\ uerr' = err

\* lines 468-491: the reader is asked for its next item.  A Pull reader and
\* an AsyncPush reader return their error at once (`?` on read and on
\* next_chunk); the error of a SyncPush reader is looked at after
\* wait_for_capacity (`buf?`)
Read ==
    /\ upc = "reading"
    /\ IF input.rest = <<>>
         THEN upc' = "finishing" /\ UNCHANGED <<input, cur, uerr>>
         ELSE /\ input' = [input EXCEPT !.rest = Tail(@)]
              /\ IF Head(input.rest) = "fault" /\ input.kind # "SyncPush"
                   THEN Failed("read") /\ UNCHANGED cur
                   ELSE /\ upc' = "capacity"
                        /\ cur' = Head(input.rest)
                        /\ UNCHANGED uerr
    /\ UNCHANGED <<cacheVars, streamVars, writerVars, resultVars>>
    /\ UNCHANGED <<parts, finishes, aborts, uret>>

\* writer.wait_for_capacity(max_concurrency).await?, then write / put
Capacity(ok) ==
    /\ upc = "capacity"
    /\ cur' = ""
    /\ IF ~ok
         THEN Failed("capacity") /\ UNCHANGED parts
         ELSE IF cur = "fault"
                THEN Failed("read") /\ UNCHANGED parts
                ELSE /\ upc' = "reading"
                     /\ parts' = parts + 1
                     /\ UNCHANGED uerr
    /\ UNCHANGED <<cacheVars, streamVars, writerVars, resultVars>>
    /\ UNCHANGED <<input, finishes, aborts, uret>>

\* line 450: Ok(()) => Ok(PyPutResult(writer.finish().await?))
Finish(ok) ==
    /\ upc = "finishing"
    /\ finishes' = finishes + 1
    /\ upc' = "done"
    /\ uret' = IF ok THEN PutOk ELSE "finish"
    /\ UNCHANGED <<cacheVars, streamVars, writerVars, resultVars>>
    /\ UNCHANGED <<input, cur, parts, aborts, uerr>>

\* lines 451-454: Err(err) => { writer.abort().await?; Err(err) }
Abort(ok) ==
    /\ upc = "aborting"
    /\ aborts' = aborts + 1
    /\ upc' = "done"
    /\ uret' = IF ok THEN uerr ELSE "abort"
    /\ UNCHANGED <<cacheVars, streamVars, writerVars, resultVars>>
    /\ UNCHANGED <<input, cur, parts, finishes, uerr>>

NextUpload ==
    \/ \E ok \in BOOLEAN : CreateUpload(ok)
    \/ Read
    \/ \E ok \in BOOLEAN : Capacity(ok)
    \/ \E ok \in BOOLEAN : Finish(ok)
    \/ \E ok \in BOOLEAN : Abort(ok)

\* one put_multipart_inner
SpecUpload == UploadInit /\ [][NextUpload]_vars

\* ------------------------------------ WritableFile (buffered.rs 337-511)
\* the methods of the file called from Python
Methods == {"close", "__exit__", "__aexit__", "closed", "flush", "write"}

\* the function a method runs: __exit__ and __aexit__ abort when they are
\* given an exception and close otherwise
WriterFn(method, exc) ==
    IF method = "closed" THEN "is_closed"
    ELSE IF method = "flush" THEN "flush"
    ELSE IF method = "write" THEN "write"
    ELSE IF method = "close" THEN "close_writer"
    ELSE IF exc THEN "abort_writer" ELSE "close_writer"

\* (mutant) close and abort borrow the writer and leave it in place
take_as_mut(w) == w

\* Option::take: the Option that is left behind
take(w) == "None"

\* a file that was just opened
WriterInit ==
    /\ CacheInit /\ StreamIdle /\ UploadIdle /\ ResultIdle
    /\ WriterIdle

\* a method is called: its function begins with writer.lock().await
WCall(k, method, exc) ==
    /\ wpc[k] = "idle"
    /\ wfn' = [wfn EXCEPT ![k] = WriterFn(method, exc)]
    /\ wret' = [wret EXCEPT ![k] = NoOut]
    /\ IF wholder = 0 /\ wwaiters = <<>>
         THEN /\ wholder' = k
              /\ wpc' = [wpc EXCEPT ![k] = "locked"]
              /\ UNCHANGED wwaiters
         ELSE /\ wwaiters' = Append(wwaiters, k)
              /\ wpc' = [wpc EXCEPT ![k] = "waiting"]
              /\ UNCHANGED wholder
    /\ UNCHANGED <<cacheVars, streamVars, uploadVars, resultVars>>
    /\ UNCHANGED <<writer, shutdowns, waborts>>

\* the function of caller k returns r (or, with r = NoOut, its future is
\* dropped): the guard is dropped and the mutex passes to the first waiter
WReturn(k, r) ==
    /\ wret' = [wret EXCEPT ![k] = r]
    /\ wholder' = IF wwaiters = <<>> THEN 0 ELSE Head(wwaiters)
    /\ wwaiters' = IF wwaiters = <<>> THEN <<>> ELSE Tail(wwaiters)
    /\ wpc' = [j \in Callers |->
                IF j = k THEN "idle"
                ELSE IF wwaiters # <<>> /\ j = Head(wwaiters) THEN "locked"
                ELSE wpc[j]]

\* lines 470-511, with the guard: is_closed answers; abort_writer and
\* close_writer take the writer and call abort / shutdown; flush and write
\* borrow it and call flush / put; without a writer all four fail
WLocked(k) ==
    /\ wpc[k] = "locked"
    /\ IF wfn[k] = "is_closed"
         THEN /\ WReturn(k, IF writer = "None" THEN "True" ELSE "False")
              /\ UNCHANGED <<writer, shutdowns, waborts>>
         ELSE IF writer = "None"
                THEN /\ WReturn(k, AlreadyClosed)
                     /\ UNCHANGED <<writer, shutdowns, waborts>>
                ELSE /\ wpc' = [wpc EXCEPT ![k] = "running"]
                     /\ writer' = IF wfn[k] \in {"abort_writer",
                                                 "close_writer"}
                                    THEN take(writer) ELSE writer
                     /\ shutdowns' = IF wfn[k] = "close_writer"
                                       THEN shutdowns + 1 ELSE shutdowns
                     /\ waborts' = IF wfn[k] = "abort_writer"
                                     THEN waborts + 1 ELSE waborts
                     /\ UNCHANGED <<wret, wholder, wwaiters>>
    /\ UNCHANGED <<cacheVars, streamVars, uploadVars, resultVars>>
    /\ UNCHANGED wfn

\* abort(), shutdown(), flush() or put() of the BufWriter completes
WDone(k, ok) ==
    /\ wpc[k] = "running"
    /\ WReturn(k, IF ok THEN Done ELSE WriterFailed)
    /\ UNCHANGED <<cacheVars, streamVars, uploadVars, resultVars>>
    /\ UNCHANGED <<writer, wfn, shutdowns, waborts>>

\* the future of an async call is dropped while it awaits the BufWriter
WCancel(k) ==
    /\ wpc[k] = "running"
    /\ WReturn(k, NoOut)
    /\ UNCHANGED <<cacheVars, streamVars, uploadVars, resultVars>>
    /\ UNCHANGED <<writer, wfn, shutdowns, waborts>>

NextWriter ==
    \/ \E k \in Callers, method \in Methods, exc \in BOOLEAN :
          WCall(k, method, exc)
    \/ \E k \in Callers : WLocked(k)
    \/ \E k \in Callers, ok \in BOOLEAN : WDone(k, ok)
    \/ \E k \in Callers : WCancel(k)

\* a WritableFile and the callers of its methods
SpecWriter == WriterInit /\ [][NextWriter]_vars

\* ------------------------------------------ GetResult (get.rs 132-219)
\* (mutant) the payload is borrowed and left in place
take_result_as_ref(r) == r

\* self.0.lock().unwrap().take(): the Option that is left behind
take_result(r) == "None"

\* a GetResult as get returns it
ResultInit ==
    /\ CacheInit /\ StreamIdle /\ UploadIdle /\ WriterIdle
    /\ ResultIdle

\* bytes, bytes_async, stream, __iter__ or __aiter__ is called: under the
\* mutex the GetResult is taken, or the call fails when there is none;
\* bytes and bytes_async then read the payload, the others wrap its stream
RTake(k, op) ==
    /\ rpc[k] = "idle"
    /\ IF result = "None"
         THEN /\ rret' = [rret EXCEPT ![k] = [op |-> op, out |-> Disposed]]
              /\ UNCHANGED <<result, rpc, consumed>>
         ELSE /\ result' = take_result(result)
              /\ consumed' = Append(consumed, op)
              /\ IF op \in {"bytes", "bytes_async"}
                   THEN /\ rpc' = [rpc EXCEPT ![k] = "reading"]
                        /\ rret' = [rret EXCEPT ![k] =
                                      [op |-> op, out |-> "none"]]
                   ELSE /\ rret' = [rret EXCEPT ![k] =
                                      [op |-> op, out |-> "BytesStream"]]
                        /\ UNCHANGED rpc
    /\ UNCHANGED <<cacheVars, streamVars, uploadVars, writerVars>>

\* get_result.bytes() completes
RBytes(k, ok) ==
    /\ rpc[k] = "reading"
    /\ rpc' = [rpc EXCEPT ![k] = "idle"]
    /\ rret' = [rret EXCEPT ![k].out = IF ok THEN "Bytes" ELSE "error"]
    /\ UNCHANGED <<cacheVars, streamVars, uploadVars, writerVars>>
    /\ UNCHANGED <<result, consumed>>

\* attributes, meta or range is read: under the mutex the GetResult is
\* borrowed, or the read fails when there is none
RGet(k, op) ==
    /\ rpc[k] = "idle"
    /\ rret' = [rret EXCEPT ![k] =
                  [op |-> op,
                   out |-> IF result = "None" THEN Disposed ELSE "value"]]
    /\ UNCHANGED <<cacheVars, streamVars, uploadVars, writerVars>>
    /\ UNCHANGED <<result, rpc, consumed>>

NextResult ==
    \/ \E k \in Callers, op \in Takers : RTake(k, op)
    \/ \E k \in Callers, ok \in BOOLEAN : RBytes(k, ok)
    \/ \E k \in Callers, op \in Getters : RGet(k, op)

\* a GetResult and the callers of its methods
SpecResult == ResultInit /\ [][NextResult]_vars

TypeOK ==
    /\ clock \in 0..MaxTime
    /\ \A c \in Caches : holder[c] \in Callers \cup {0}
    /\ \A k \in Callers : pc[k] \in {"idle", "waiting", "locked",
                                     "refreshing"}

\* ------------------------------------------------------------ vocabulary
\* the callers whose refresh on cache c is in flight
InFlight(c) == {k \in Callers : pc[k] = "refreshing" /\ on[k] = c}

\* steps of caller k: it returns the cached token / it invokes f
Reuses(k) == pc[k] = "locked" /\ pc'[k] = "idle" /\ ret'[k].kind = "ok"
Invokes(k) == pc[k] = "locked" /\ pc'[k] = "refreshing"

\* ---------------------------------------------------------------- claims
\* C1: on one cache at most one refresh is in flight at any time, with
\* callers that return and callers that are abandoned.
OneRefreshInFlight == \A c \in Caches : Cardinality(InFlight(c)) <= 1

\* a refresh is in flight while another caller of the same cache waits
OneRefreshInFlightWitness ==
    \E k \in Callers : pc[k] = "refreshing" /\ waiters[on[k]] # <<>>

\* C2: the slot holds a token no call would reuse and N callers call
\* concurrently, each refresh succeeding with the same long-lived token: f
\* is invoked by at most one call, every call that has returned returned the
\* fresh token, and once all have returned f was invoked exactly once.
HerdRefreshesOnce ==
    /\ Cardinality({k \in Callers : calledF[k]}) <= 1
    /\ \A k \in Callers : ret[k] # NoRet => ret[k] = Ok("t2")
    /\ (\A k \in Callers : ret[k] # NoRet) =>
          Cardinality({k \in Callers : calledF[k]}) = 1

\* all N calls have returned and a caller that did not refresh got the
\* fresh token
HerdRefreshesOnceWitness ==
    /\ \A k \in Callers : ret[k] = Ok("t2")
    /\ \E k \in Callers : ~calledF[k]

\* the token stored in cache c has an expiry and, measured from instant n,
\* more than zero but not more than min_ttl of life left
Borderline(c, n) ==
    /\ slot[c] # NoSlot
    /\ slot[c].expiry # NoExpiry
    /\ slot[c].expiry - n > 0
    /\ slot[c].expiry - n <= min_ttl[c]

\* C3: a call never returns the cached token without refreshing when that
\* token's expiry is at or before the time at which the call inspects the
\* slot under the lock.
NoExpiredReuse ==
    [][\A k \in Callers :
         Reuses(k) => \/ slot[on[k]].expiry = NoExpiry
                      \/ slot[on[k]].expiry > clock]_vars

\* C4: when f fails with e the call returns exactly Err(e) and the slot
\* (token, expiry, fetched_at, or empty) is what it was before the call.
ErrorLeavesSlot ==
    [][\A k \in Callers, e \in Errs :
         RefreshErr(k, e) => /\ ret'[k] = Err(e)
                             /\ slot'[on[k]] = slot[on[k]]]_vars

\* a call has returned an error and the slot still holds a token
ErrorLeavesSlotWitness ==
    \E k \in Callers : ret[k].kind = "err" /\ slot[1] # NoSlot

\* C5: a call made after a refresh of the cache failed, with no successful
\* refresh since, invokes f again, and when f succeeds the call installs and
\* returns the fresh token.
RetryAfterError ==
    [][/\ \A k \in Callers :
            (failedAt[on[k]] # -1 /\ now[k] >= failedAt[on[k]]) => ~Reuses(k)
       /\ \A k \in Callers :
            (pc[k] = "refreshing" /\ ret'[k].kind = "ok") =>
               /\ slot'[on[k]] # NoSlot
               /\ slot'[on[k]].fetched_at = clock
               /\ ret'[k] = Ok(slot'[on[k]].token)]_vars

\* a call that started after a refresh error is refreshing, although the
\* stored token has not expired
RetryAfterErrorWitness ==
    \E k \in Callers :
       /\ pc[k] = "refreshing"
       /\ failedAt[on[k]] # -1 /\ now[k] >= failedAt[on[k]]
       /\ \E j \in Callers : ret[j].kind = "err"
       /\ slot[on[k]] # NoSlot /\ slot[on[k]].expiry > clock

\* C6: once the slot holds a token without expiry the slot never changes
\* again, no call invokes f, and every call returns that token.
NeverExpiringIsFinal ==
    [][\A c \in Caches :
         (slot[c] # NoSlot /\ slot[c].expiry = NoExpiry) =>
            /\ slot'[c] = slot[c]
            /\ \A k \in Callers : on[k] = c =>
                  /\ ~Invokes(k)
                  /\ Reuses(k) => ret'[k] = Ok(slot[c].token)]_vars

\* a token without expiry was returned from the cache some time after it
\* was fetched
NeverExpiringIsFinalWitness ==
    /\ slot[1] # NoSlot /\ slot[1].expiry = NoExpiry
    /\ clock - slot[1].fetched_at >= fetch_backoff[1]
    /\ \E k \in Callers : ret[k] = Ok(slot[1].token) /\ ~calledF[k]

\* the token stored in cache c had, when it was installed, more than zero
\* but not more than min_ttl of life left
BorderlineAtInstall(c) == Borderline(c, slot[c].fetched_at)

\* C7 (as stated): with a token installed with 0 < life <= min_ttl, a call
\* that inspects the slot less than fetch_backoff after fetched_at returns
\* the stored token without refresh, and a call that inspects it
\* fetch_backoff or more after fetched_at invokes f.
BackoffByInspectTime ==
    [][\A k \in Callers :
         (pc[k] = "locked" /\ BorderlineAtInstall(on[k])) =>
            /\ clock - slot[on[k]].fetched_at < fetch_backoff[on[k]]
                  => ~Invokes(k)
            /\ clock - slot[on[k]].fetched_at >= fetch_backoff[on[k]]
                  => ~Reuses(k)]_vars

\* C7 (amended): with a token installed with 0 < life <= min_ttl, a call
\* that started before the token's expiry and inspects the slot less than
\* fetch_backoff after fetched_at returns the stored token without refresh,
\* and a call that started fetch_backoff or more after fetched_at invokes f.
BackoffByStartTime ==
    [][\A k \in Callers :
         (pc[k] = "locked" /\ BorderlineAtInstall(on[k])) =>
            /\ (/\ clock - slot[on[k]].fetched_at < fetch_backoff[on[k]]
                /\ now[k] < slot[on[k]].expiry)
                  => /\ ~Invokes(k)
                     /\ Reuses(k) => ret'[k] = Ok(slot[on[k]].token)
            /\ now[k] - slot[on[k]].fetched_at >= fetch_backoff[on[k]]
                  => ~Reuses(k)]_vars

\* a call that started fetch_backoff or more after a borderline token was
\* installed, and before that token expired, is refreshing
BackoffByStartTimeWitness ==
    \E k \in Callers :
       /\ pc[k] = "refreshing"
       /\ BorderlineAtInstall(on[k])
       /\ now[k] - slot[on[k]].fetched_at >= fetch_backoff[on[k]]
       /\ slot[on[k]].expiry > clock

\* when the refresh attempt before this one ended
PreviousAttempt(c) ==
    IF failedAt[c] # -1 THEN failedAt[c] ELSE slot[c].fetched_at

\* C8 (as stated): while the stored token is borderline, a refresh attempt
\* starts at least fetch_backoff after the attempt before it, whether that
\* one succeeded or not.
AttemptsSpaced ==
    [][\A k \in Callers :
         (Invokes(k) /\ Borderline(on[k], clock)) =>
            clock - PreviousAttempt(on[k]) >= fetch_backoff[on[k]]]_vars

\* C8 (amended): while the stored token is borderline, a refresh attempt
\* that follows a successful refresh starts at least fetch_backoff after it.
AttemptsSpacedAfterSuccess ==
    [][\A k \in Callers :
         (Invokes(k) /\ Borderline(on[k], clock) /\ failedAt[on[k]] = -1) =>
            clock - slot[on[k]].fetched_at >= fetch_backoff[on[k]]]_vars

\* a refresh is in flight that started on a borderline token, and the
\* refresh before it succeeded
AttemptsSpacedAfterSuccessWitness ==
    \E k \in Callers :
       /\ pc[k] = "refreshing"
       /\ Borderline(on[k], clock)
       /\ failedAt[on[k]] = -1

\* C9: when the cached token has expiry E with E - now > min_ttl for the
\* call's captured now, the call does not invoke f, leaves the slot as it
\* is and returns the cached token, whatever fetched_at is.
AmpleReuse ==
    [][\A k \in Callers :
         (/\ pc[k] = "locked"
          /\ slot[on[k]] # NoSlot
          /\ slot[on[k]].expiry # NoExpiry
          /\ slot[on[k]].expiry - now[k] > min_ttl[on[k]]) =>
            /\ ~Invokes(k)
            /\ slot'[on[k]] = slot[on[k]]
            /\ Reuses(k) => ret'[k] = Ok(slot[on[k]].token)]_vars

\* a token with more than min_ttl left was returned from the cache after
\* the backoff had passed
AmpleReuseWitness ==
    /\ slot[1] # NoSlot /\ slot[1].expiry # NoExpiry
    /\ slot[1].expiry - clock > min_ttl[1]
    /\ clock - slot[1].fetched_at >= fetch_backoff[1]
    /\ \E k \in Callers : ret[k] = Ok(slot[1].token) /\ ~calledF[k]

\* C10: a clone starts with an empty slot whatever the original holds, a
\* call that finds the slot empty invokes f, and the slot of a cache changes
\* only when a refresh by one of its own callers succeeds.
CloneIsolated ==
    [][/\ (~exists[2] /\ exists'[2]) => slot'[2] = NoSlot
       /\ \A k \in Callers :
            (pc[k] = "locked" /\ slot[on[k]] = NoSlot) => ~Reuses(k)
       /\ \A c \in Caches :
            slot'[c] # slot[c] =>
               \E k \in Callers : /\ on[k] = c
                                  /\ pc[k] = "refreshing"
                                  /\ ret'[k].kind = "ok"]_vars

\* the original was populated in this very tick and a call on the clone,
\* whose slot is empty, is refreshing
CloneIsolatedWitness ==
    /\ exists[2]
    /\ slot[1] # NoSlot /\ slot[1].fetched_at = clock
    /\ slot[2] = NoSlot
    /\ \E k \in Callers : on[k] = 2 /\ pc[k] = "refreshing"

\* the call of caller k ends without a result: it was abandoned
Abandoned(k) ==
    /\ pc[k] \in {"waiting", "locked", "refreshing"}
    /\ pc'[k] = "idle"
    /\ ret'[k] = NoRet

\* the mutex of cache c is owned by a caller inside a call on c, the callers
\* in its queue are all waiting for it, and nobody waits while it is free
MutexSound(c) ==
    /\ holder[c] # 0 => (pc[holder[c]] \in {"locked", "refreshing"}
                         /\ on[holder[c]] = c)
    /\ holder[c] = 0 => waiters[c] = <<>>
    /\ \A i \in 1..Len(waiters[c]) :
          pc[waiters[c][i]] = "waiting" /\ on[waiters[c][i]] = c
    /\ \A k \in Callers : (pc[k] = "waiting" /\ on[k] = c) =>
          \E i \in 1..Len(waiters[c]) : waiters[c][i] = k

\* C11: when a call is abandoned while it waits for the lock or awaits the
\* refresh, the slot stays as it was, the abandoned caller neither owns the
\* mutex nor waits in its queue, and the mutex is left free or with a live
\* owner, so that the other callers can go on.
AbandonReleases ==
    [][\A k \in Callers :
         Abandoned(k) =>
            /\ slot' = slot
            /\ \A c \in Caches :
                  /\ holder'[c] # k
                  /\ \A i \in 1..Len(waiters'[c]) : waiters'[c][i] # k
                  /\ MutexSound(c)']_vars

\* a refresh was abandoned and a later refresh of the same cache succeeded
AbandonReleasesWitness ==
    /\ failedAt[1] = -1
    /\ \E k, j \in Callers :
          /\ pc[k] = "idle" /\ calledF[k] /\ ret[k] = NoRet
          /\ calledF[j] /\ ret[j].kind = "ok"

\* C12: the slot changes only by a successful refresh, which writes the
\* returned token together with the time of the write, so that fetched_at
\* is always the time at which the stored token was written.
FetchedAtIsWriteTime ==
    [][\A c \in Caches :
         /\ slot'[c] # slot[c] =>
               /\ slot'[c] # NoSlot
               /\ slot'[c].fetched_at = clock
               /\ \E k \in Callers : /\ pc[k] = "refreshing" /\ on[k] = c
                                     /\ ret'[k] = Ok(slot'[c].token)
         /\ \A k \in Callers :
               (pc[k] = "refreshing" /\ on[k] = c /\ ret'[k].kind = "ok") =>
                  slot'[c].fetched_at = clock
         /\ slot[c] # NoSlot => slot[c].fetched_at <= clock]_vars

\* a stored token was replaced by a later refresh
FetchedAtIsWriteTimeWitness ==
    /\ slot[1] # NoSlot /\ slot[1].fetched_at = clock /\ clock > 0
    /\ \E k, j \in Callers :
          /\ k # j
          /\ calledF[k] /\ ret[k] = Ok(slot[1].token)
          /\ calledF[j] /\ ret[j].kind = "ok" /\ ret[j].val # slot[1].token

\* C13: a call invokes f at most once: never again after it has invoked it
\* (no retry after an error: the call ends when f does), and not at all when
\* it returns the cached token.
OneAttemptPerCall ==
    [][\A k \in Callers :
         /\ Invokes(k) => ~calledF[k]
         /\ pc[k] = "refreshing" => pc'[k] \in {"refreshing", "idle"}
         /\ Reuses(k) => ~calledF'[k]]_vars

\* one call has returned the error of its single attempt, another has
\* returned the cached token without an attempt
OneAttemptPerCallWitness ==
    \E k, j \in Callers :
       /\ pc[k] = "idle" /\ ret[k].kind = "err" /\ calledF[k]
       /\ pc[j] = "idle" /\ ret[j].kind = "ok" /\ ~calledF[j]

\* caller k owns the MutexGuard of the cache it is calling
Owns(k) == holder[on[k]] = k

\* C14: a caller owns the mutex exactly from its acquisition to the end of
\* its call, the refresh included; after a return of any kind it owns it no
\* more; and the slot is read and written by the owner only.
LockHeldThroughout ==
    [][/\ \A k \in Callers :
            /\ pc[k] \in {"locked", "refreshing"} => Owns(k)
            /\ pc[k] \in {"idle", "waiting"} =>
                  \A c \in Caches : holder[c] # k
            /\ pc'[k] = "idle" => \A c \in Caches : holder'[c] # k
            /\ (Reuses(k) \/ Invokes(k)) => Owns(k)
       /\ \A c \in Caches :
            slot'[c] # slot[c] =>
               (holder[c] # 0 /\ pc[holder[c]] = "refreshing")]_vars

\* the mutex is free after a call returned an error and another returned a
\* token
LockHeldThroughoutWitness ==
    /\ holder[1] = 0
    /\ \E k, j \in Callers : ret[k].kind = "err" /\ ret[j].kind = "ok"

\* the condition under which the call of caller k, inspecting the slot of
\* its cache now, has to refresh: the slot is empty, or the token has an
\* expiry E with E - now <= min_ttl and (t - fetched_at >= fetch_backoff or
\* E - now <= 0)
MustRefresh(k) ==
    LET c == on[k] IN
    \/ slot[c] = NoSlot
    \/ /\ slot[c] # NoSlot
       /\ slot[c].expiry # NoExpiry
       /\ slot[c].expiry - now[k] <= min_ttl[c]
       /\ \/ clock - slot[c].fetched_at >= fetch_backoff[c]
          \/ slot[c].expiry - now[k] <= 0

\* C17: a call invokes f if and only if the slot is empty, or the token has
\* an expiry E with E - now <= min_ttl and (t - fetched_at >= fetch_backoff
\* or E - now <= 0), now captured at call start and t sampled under the
\* lock; otherwise it returns the stored token.
RefreshIff ==
    [][\A k \in Callers :
         /\ Invokes(k) => MustRefresh(k)
         /\ Reuses(k) => ~MustRefresh(k)
         /\ Reuses(k) => ret'[k] = Ok(slot[on[k]].token)]_vars

\* a call is refreshing a token that had exactly min_ttl of life left at
\* the start of the call and was fetched exactly fetch_backoff ago
RefreshIffWitness ==
    \E k \in Callers :
       /\ pc[k] = "refreshing"
       /\ slot[on[k]] # NoSlot /\ slot[on[k]].expiry # NoExpiry
       /\ slot[on[k]].expiry - now[k] = min_ttl[on[k]]
       /\ clock - slot[on[k]].fetched_at = fetch_backoff[on[k]]

\* C18: the backoff is measured with the time sampled under the lock: a
\* call that started before fetched_at + fetch_backoff, inspects the slot
\* at or after fetched_at + fetch_backoff and finds a token with more than
\* zero but not more than min_ttl of life left does not return the stored
\* token.
BackoffSampledUnderLock ==
    [][\A k \in Callers :
         (/\ pc[k] = "locked"
          /\ Borderline(on[k], now[k])
          /\ now[k] - slot[on[k]].fetched_at < fetch_backoff[on[k]]
          /\ clock - slot[on[k]].fetched_at >= fetch_backoff[on[k]])
            => ~Reuses(k)]_vars

\* a call that started within the backoff of a borderline token is
\* refreshing it, the backoff being over
BackoffSampledUnderLockWitness ==
    \E k \in Callers :
       /\ pc[k] = "refreshing"
       /\ Borderline(on[k], now[k])
       /\ now[k] - slot[on[k]].fetched_at < fetch_backoff[on[k]]
       /\ now[k] >= slot[on[k]].fetched_at
       /\ clock - slot[on[k]].fetched_at >= fetch_backoff[on[k]]

\* C19: a successful refresh writes (fresh, time of the write) into the slot
\* and returns fresh.token, and a call that returns a token, from the cache
\* or from a refresh, returns the token the slot holds when the call
\* releases the mutex.
ReturnsStoredToken ==
    [][\A k \in Callers :
         /\ (pc[k] = "refreshing" /\ pc'[k] = "idle" /\ ret'[k].kind = "ok")
               => \E tok \in Tokens, exp \in Expiries :
                     /\ slot'[on[k]] = Entry(tok, exp, clock)
                     /\ ret'[k] = Ok(tok)
         /\ (pc[k] # "idle" /\ pc'[k] = "idle" /\ ret'[k].kind = "ok")
               => /\ slot'[on[k]] # NoSlot
                  /\ ret'[k].val = slot'[on[k]].token
                  /\ holder'[on[k]] # k]_vars

\* a refresh has replaced the stored token and returned the new one, after
\* another call had returned the old one
ReturnsStoredTokenWitness ==
    \E k, j \in Callers :
       /\ calledF[k] /\ ret[k] = Ok(slot[1].token)
       /\ slot[1].fetched_at > 0
       /\ ret[j].kind = "ok" /\ ret[j].val # slot[1].token

\* C15: when the callback of an adapter fails (the call raises, the result
\* is not a credential, or the awaitable fails), get_credential returns
\* Unauthenticated with the path of the adapter and the error of the
\* callback as source, and the cache is not written.
CallbackFailureUnauthenticated ==
    [][\A k \in Callers :
         pc[k] = "refreshing" =>
            /\ \A cb \in Callbacks :
                  cb.fails # "no" =>
                     /\ fetch_token("aws", cb) = PyErr(Unauthenticated(
                           "External AWS credential provider", cb.err))
                     /\ fetch_token("azure", cb) = PyErr(Unauthenticated(
                           "External Azure credential provider", cb.err))
                     /\ fetch_token("gcp", cb) = PyErr(Unauthenticated(
                           "External GCP credential provider", cb.err))
            /\ (pc'[k] = "idle" /\ ret'[k].kind = "err") =>
                  /\ slot' = slot
                  /\ \E cb \in Callbacks :
                        /\ cb.fails # "no"
                        /\ ret'[k] = Err(fetch_token(provider.kind, cb).err)
            /\ (pc'[k] = "idle" /\ ret'[k].kind = "ok") =>
                  \E cb \in Callbacks :
                     /\ cb.fails = "no"
                     /\ ret'[k] = Ok(cb.token)]_vars

\* a call of the GCP adapter has returned the Unauthenticated error made of
\* the callback's error, and the cache still holds the token it held
CallbackFailureUnauthenticatedWitness ==
    /\ provider.kind = "gcp"
    /\ slot[1] # NoSlot
    /\ \E k \in Callers :
          ret[k] = Err(Unauthenticated("External GCP credential provider",
                                       "e2"))

\* C16 (as stated): the cache of each adapter has min_ttl of 300 seconds
\* when the provider has no refresh_threshold and min_ttl = refresh_threshold
\* when it has one, and fetch_backoff of 100 milliseconds.
AdapterMinTtl300 ==
    /\ provider.refresh_threshold = NoThreshold => min_ttl[1] = DefaultMinTtl
    /\ provider.refresh_threshold # NoThreshold =>
          min_ttl[1] = provider.refresh_threshold
    /\ fetch_backoff[1] = DefaultFetchBackoff

\* C16 (amended): without refresh_threshold the cache of the AWS and of the
\* Azure adapter has min_ttl of 300 seconds and that of the GCP adapter of
\* 240 seconds; with refresh_threshold, min_ttl = refresh_threshold in all
\* three; fetch_backoff is 100 milliseconds in all cases.
AdapterMinTtl ==
    /\ (provider.refresh_threshold = NoThreshold
        /\ provider.kind \in {"aws", "azure"}) => min_ttl[1] = 6000
    /\ (provider.refresh_threshold = NoThreshold
        /\ provider.kind = "gcp") => min_ttl[1] = 4800
    /\ provider.refresh_threshold # NoThreshold =>
          min_ttl[1] = provider.refresh_threshold
    /\ fetch_backoff[1] = 2

\* the GCP adapter without refresh_threshold has stored a token, and so has
\* an adapter with refresh_threshold
AdapterMinTtlWitness ==
    /\ provider.kind = "gcp"
    /\ provider.refresh_threshold = NoThreshold
    /\ min_ttl[1] = DefaultGcpMinTtl
    /\ slot[1] # NoSlot

CloneNotBlocked ==
    [][/\ \A k \in Callers :
            (pc[k] = "idle" /\ pc'[k] = "waiting") => holder[on'[k]] # 0
       /\ \A k \in Callers :
            (pc[k] = "idle" /\ pc'[k] \notin {"idle", "waiting"}) =>
               (pc'[k] = "locked" /\ holder'[on'[k]] = k)
       /\ \A c \in Caches :
            /\ Cardinality(InFlight(c)) <= 1
            /\ \A k \in Callers :
                  (pc[k] = "waiting" /\ on[k] = c) => holder[c] \notin {0, k}
       ]_vars

\* a refresh is in flight on the original and another on its clone
CloneNotBlockedWitness ==
    /\ exists[2]
    /\ \E k, j \in Callers :
          /\ on[k] = 1 /\ pc[k] = "refreshing"
          /\ on[j] = 2 /\ pc[j] = "refreshing"

\* the callback cb, returning its result directly / as an awaitable
Direct(cb) == [cb EXCEPT !.how = "sync"]
Awaitable(cb) == [cb EXCEPT !.how = "async"]

HitLeavesSlot ==
    [][\A k \in Callers :
         Reuses(k) =>
            /\ slot' = slot
            /\ slot'[on[k]].fetched_at = slot[on[k]].fetched_at
            /\ ret'[k] = Ok(slot[on[k]].token)
            /\ UNCHANGED <<min_ttl, fetch_backoff>>]_vars

\* two calls have returned, inside its backoff window and some time after
\* its fetch, a token that was stored with not more than min_ttl of life
HitLeavesSlotWitness ==
    /\ BorderlineAtInstall(1)
    /\ slot[1].fetched_at < clock /\ clock < slot[1].expiry
    /\ clock - slot[1].fetched_at < fetch_backoff[1]
    /\ \A k \in Callers :
          pc[k] = "idle" /\ ~calledF[k] /\ ret[k] = Ok(slot[1].token)

\* C24: a slot that holds a token holds one ever after: neither a hit nor
\* a successful, failed or abandoned refresh empties it.
SlotStaysFilled ==
    [][\A c \in Caches : slot[c] # NoSlot => slot'[c] # NoSlot]_vars

\* the slot still holds a token that has expired, after a refresh failed
\* and a call was abandoned during its refresh
SlotStaysFilledWitness ==
    /\ slot[1] # NoSlot
    /\ slot[1].expiry # NoExpiry /\ slot[1].expiry <= clock
    /\ failedAt[1] # -1
    /\ \E k, j \in Callers :
          /\ ret[k].kind = "err"
          /\ pc[j] = "idle" /\ calledF[j] /\ ret[j] = NoRet

\* a next-call of caller k returns
Returned(k) == spc[k] = "polling" /\ spc'[k] = "idle"

\* C25: the next-call that sees the stream end with a batch begun returns
\* that batch; every next-call after the end raises StopIteration (sync) or
\* StopAsyncIteration (async); and no next-call returns an empty batch.
PartialBatchThenStop ==
    [][/\ ended => ended'
       /\ \A k \in Callers :
            Returned(k) =>
               /\ sret'[k].kind = "batch" => sret'[k].items # <<>>
               /\ (~ended /\ ended' /\ metas[k] # <<>>) =>
                     sret'[k] = [kind |-> "batch", items |-> metas[k]]
               /\ (ended \/ (ended' /\ metas[k] = <<>>)) =>
                     /\ sync[k] => sret'[k].kind = "StopIteration"
                     /\ ~sync[k] => sret'[k].kind = "StopAsyncIteration"
                     /\ delivered' = delivered]_vars

\* the stream has ended: one call has returned a batch smaller than the
\* chunk size, a later one StopIteration and another StopAsyncIteration
PartialBatchThenStopWitness ==
    /\ ended
    /\ stream.kind = "list" /\ chunk_size = 2
    /\ Len(delivered) = 1
    /\ \E k, j \in Callers :
          /\ sret[k].kind = "StopIteration"
          /\ sret[j].kind = "StopAsyncIteration"

\* C26: the batches returned by the next-calls, concatenated in the order
\* of the calls, are the Ok items the underlying stream has yielded, once
\* no call is in progress.
NoItemLost ==
    (\A k \in Callers : spc[k] # "polling") => delivered = yielded

\* C27: when the put of a started multipart upload has returned an error,
\* abort was called on the upload; when it has returned the PutResult,
\* finish was called once and abort never.
FailedUploadAborted ==
    (upc = "done" /\ uret # "create") =>
       /\ uret # PutOk => aborts >= 1
       /\ uret = PutOk => (finishes = 1 /\ aborts = 0)

\* how many times the BufWriter was shut down or aborted
Takes == shutdowns + waborts

\* C28: the BufWriter is shut down or aborted at most once; once a close or
\* an abort has taken it, whether its shutdown or abort succeeds or not,
\* closed() returns true and write, flush, close and abort fail with
\* "Writer already closed." without touching a writer; before, closed()
\* returns false.
ClosedOnce ==
    [][/\ shutdowns' + waborts' <= 1
       /\ \A k \in Callers :
            wpc[k] = "locked" =>
               /\ (wfn[k] = "is_closed" /\ Takes = 0) =>
                     (wpc'[k] = "locked" \/ wret'[k] = "False")
               /\ (wfn[k] = "is_closed" /\ Takes = 1) =>
                     (wpc'[k] = "locked" \/ wret'[k] = "True")
               /\ (wfn[k] # "is_closed" /\ Takes = 1) =>
                     (wpc'[k] = "locked"
                        \/ (/\ wpc'[k] = "idle"
                            /\ wret'[k] = "Writer already closed."))
               /\ (wfn[k] # "is_closed" /\ Takes = 0) =>
                     wpc'[k] \in {"locked", "running"}]_vars

\* the shutdown of a close has failed, and a later write has failed with
\* "Writer already closed."
ClosedOnceWitness ==
    /\ shutdowns = 1
    /\ \E k, j \in Callers :
          /\ wfn[k] = "close_writer" /\ wret[k] = WriterFailed
          /\ wfn[j] = "write" /\ wret[j] = AlreadyClosed

\* caller k makes a call on the GetResult in this step
Called(k) ==
    rpc[k] = "idle" /\ (rret'[k] # rret[k] \/ rpc'[k] = "reading")

\* C29: the GetResult is taken at most once: the first call of bytes,
\* bytes_async, stream, __iter__ or __aiter__ obtains it, and from then on
\* each of these calls and each read of attributes, meta and range fails
\* with "Result has already been disposed."
ConsumedOnce ==
    [][/\ Len(consumed') <= 1
       /\ \A k \in Callers :
            Called(k) =>
               /\ consumed # <<>> =>
                     /\ rret'[k].out = "Result has already been disposed."
                     /\ rpc'[k] = "idle"
                     /\ consumed' = consumed
               /\ (consumed = <<>> /\ rret'[k].op \in Takers) =>
                     /\ consumed' = <<rret'[k].op>>
                     /\ rret'[k].out \in {"none", "BytesStream"}
               /\ (consumed = <<>> /\ rret'[k].op \in Getters) =>
                     /\ consumed' = consumed
                     /\ rret'[k].out = "value"]_vars

\* bytes_async has obtained the payload and read it, and a later read of
\* meta has failed
ConsumedOnceWitness ==
    /\ consumed = <<"bytes_async">>
    /\ \E k, j \in Callers :
          /\ rret[k] = [op |-> "bytes_async", out |-> "Bytes"]
          /\ rret[j] = [op |-> "meta", out |-> Disposed]
====
